---- MODULE Spec2Model ----
(***************************************************************************)
(* A model of arkiv: the format classifier (format.rs), the Archive facade *)
(* with its lazily re-created backend (archive.rs, zip.rs, tar.rs), the    *)
(* lazy entry sequences (entry.rs) and the Downloader (download.rs).       *)
(***************************************************************************)
EXTENDS Integers, Sequences, FiniteSets, TLC

VARIABLES
    features,     \* the cargo features the crate was built with
    fileExists,   \* whether a file exists at the archive's path
    fileContent,  \* what that file holds: [valid, items]
    arch,         \* the Archive value the caller holds: None or [format, path]
    archived,     \* Archive.archived, the cached backend: None or [kind, pos]
    iter,         \* the Entries / FindEntries value the caller holds, or None
    yielded,      \* what the held sequence has yielded so far
    held,         \* the Entry the caller keeps from entry_by_name, or None
    dest,         \* the destination tree: [dirs, files]
    last,         \* the last public call: [op, arg, res]
    prev,         \* the call before it on the same Archive, or NoCall
    dl            \* the Downloader and its download() in progress

vars == <<features, fileExists, fileContent, arch, archived, iter, yielded,
          held, dest, last, prev, dl>>

None == <<>>
Some(x) == <<x>>

Ok(v) == [ok |-> TRUE, val |-> v, err |-> "none"]
Err(e) == [ok |-> FALSE, val |-> None, err |-> e]

----------------------------------------------------------------------------
(* format.rs: file names and Format::infer_from_file_extension.            *)
(* A file name is the sequence of its dot-separated segments, a segment a  *)
(* sequence of characters.                                                 *)

Upper == <<"A","B","C","D","E","F","G","H","I","J","K","L","M",
           "N","O","P","Q","R","S","T","U","V","W","X","Y","Z">>
Lower == <<"a","b","c","d","e","f","g","h","i","j","k","l","m",
           "n","o","p","q","r","s","t","u","v","w","x","y","z">>

to_ascii_lowercase_char(c) ==
    IF \E i \in DOMAIN Upper : Upper[i] = c
    THEN Lower[CHOOSE i \in DOMAIN Upper : Upper[i] = c]
    ELSE c

to_ascii_lowercase(seg) == [i \in DOMAIN seg |-> to_ascii_lowercase_char(seg[i])]

\* Path::extension: what follows the last dot of the file name; none when
\* there is no dot, or when nothing precedes the only dot (".zip"), or for "..".
extension(name) ==
    IF Len(name) < 2 THEN None
    ELSE IF name = << <<>>, <<>>, <<>> >> THEN None
    ELSE IF Len(name) = 2 /\ name[1] = <<>> THEN None
    ELSE Some(name[Len(name)])

\* Path::file_stem: the file name without its extension.
file_stem(name) ==
    IF extension(name) = None THEN name ELSE SubSeq(name, 1, Len(name) - 1)

\* match_ext!(path, ext)
match_ext(name, ext) ==
    /\ extension(name) # None
    /\ to_ascii_lowercase(extension(name)[1]) = ext

\* match_ext!(path, ext1, ext2)
match_ext2(name, ext1, ext2) ==
    /\ extension(name) # None
    /\ to_ascii_lowercase(extension(name)[1]) = ext2
    /\ match_ext(file_stem(name), ext1)

x_zip == <<"z","i","p">>
x_tar == <<"t","a","r">>
x_tgz == <<"t","g","z">>
x_gz == <<"g","z">>
x_xz == <<"x","z">>
x_bz2 == <<"b","z","2">>
x_zst == <<"z","s","t">>
x_zstd == <<"z","s","t","d">>

Formats == {"Zip", "Tar", "Gzip", "Zstd", "Bzip2", "Xz2",
            "TarGzip", "TarBzip2", "TarXz2", "TarZstd", "Unknown"}

infer_codec_first(name) ==
    IF match_ext(name, x_zip) THEN "Zip"
    ELSE IF match_ext(name, x_tar) THEN "Tar"
    ELSE IF match_ext(name, x_tgz) THEN "TarGzip"
    ELSE IF match_ext(name, x_gz) THEN "Gzip"
    ELSE IF match_ext(name, x_xz) THEN "Xz2"
    ELSE IF match_ext(name, x_bz2) THEN "Bzip2"
    ELSE IF match_ext(name, x_zstd) \/ match_ext(name, x_zst) THEN "Zstd"
    ELSE IF match_ext2(name, x_tar, x_gz) THEN "TarGzip"
    ELSE IF match_ext2(name, x_tar, x_xz) THEN "TarXz2"
    ELSE IF match_ext2(name, x_tar, x_bz2) THEN "TarBzip2"
    ELSE IF match_ext2(name, x_tar, x_zstd) \/ match_ext2(name, x_tar, x_zst) THEN "TarZstd"
    ELSE "Unknown"

infer_from_file_extension(name) ==
    IF match_ext(name, x_zip) THEN "Zip"
    ELSE IF match_ext(name, x_tar) THEN "Tar"
    ELSE IF match_ext(name, x_tgz) \/ match_ext2(name, x_tar, x_gz) THEN "TarGzip"
    ELSE IF match_ext2(name, x_tar, x_xz) THEN "TarXz2"
    ELSE IF match_ext2(name, x_tar, x_bz2) THEN "TarBzip2"
    ELSE IF match_ext2(name, x_tar, x_zstd) \/ match_ext2(name, x_tar, x_zst) THEN "TarZstd"
    ELSE IF match_ext(name, x_gz) THEN "Gzip"
    ELSE IF match_ext(name, x_xz) THEN "Xz2"
    ELSE IF match_ext(name, x_bz2) THEN "Bzip2"
    ELSE IF match_ext(name, x_zstd) \/ match_ext(name, x_zst) THEN "Zstd"
    ELSE "Unknown"

is_compressed_known_only(format) == format \notin {"Tar", "Unknown"}

is_compressed(format) == format # "Tar"

is_archive_gzip_too(format) ==
    format \in {"Zip", "Tar", "Gzip", "TarGzip", "TarBzip2", "TarXz2", "TarZstd"}

is_archive(format) ==
    CASE format = "Zip" -> TRUE
      [] format = "Tar" -> TRUE
      [] format = "Gzip" -> FALSE
      [] format = "Zstd" -> FALSE
      [] format = "Bzip2" -> FALSE
      [] format = "Xz2" -> FALSE
      [] format = "TarGzip" -> TRUE
      [] format = "TarBzip2" -> TRUE
      [] format = "TarXz2" -> TRUE
      [] format = "TarZstd" -> TRUE
      [] format = "Unknown" -> FALSE

\* The file names the model opens.
s_sample == <<"s","a","m","p","l","e">>
s_txt == <<"t","x","t">>
s_exe == <<"e","x","e">>

Names == {
    <<s_sample, x_zip>>, <<s_sample, <<"Z","i","p">>>>,
    <<s_sample, x_tar>>, <<s_sample, <<"T","A","R">>>>,
    <<s_sample, x_tar, x_gz>>, <<s_sample, <<"t","A","r">>, x_gz>>,
    <<s_sample, x_tar, <<"G","Z">>>>, <<s_sample, x_tgz>>,
    <<s_sample, x_tar, x_xz>>, <<s_sample, x_tar, x_bz2>>,
    <<s_sample, x_tar, x_zstd>>, <<s_sample, x_tar, x_zst>>,
    <<s_sample, x_gz>>, <<s_sample, x_xz>>, <<s_sample, x_bz2>>,
    <<s_sample, x_zst>>, <<s_sample, x_zstd>>,
    <<s_sample, s_txt, x_gz>>, <<s_sample, s_txt, x_zst>>,
    <<s_sample, s_exe>>, <<s_sample>>, <<<<>>, x_zip>>, <<x_tar, x_gz>>,
    <<s_sample, x_zip, x_gz>>, <<s_sample, x_tar, s_txt>> }

\* The names Format::infer_from_file_extension is asked about: the names
\* above and every one- and two-suffix name over these suffixes, with and
\* without something before the first dot.
Suffixes == {x_zip, x_tar, x_tgz, x_gz, x_xz, x_bz2, x_zst, x_zstd, s_txt,
             <<"T","a","R">>, <<"B","Z","2">>, <<"Z","S","T","D">>, <<"T","g","Z">>}

InferNames ==
    Names
    \cup {<<stem, e>> : stem \in {s_sample, <<>>}, e \in Suffixes}
    \cup {<<stem, e1, e2>> : stem \in {s_sample, <<>>}, e1 \in Suffixes, e2 \in Suffixes}

----------------------------------------------------------------------------
(* The archive file and what the container libraries read from it.         *)

\* An entry path: its components and whether it was written with a trailing
\* slash.  Path equality compares components; display() prints it as written.
P_dir == [comps |-> <<"sample">>, slash |-> TRUE]
P_dir_bare == [comps |-> <<"sample">>, slash |-> FALSE]
P_file == [comps |-> <<"sample", "sample.txt">>, slash |-> FALSE]
P_link == [comps |-> <<"link">>, slash |-> FALSE]
P_missing == [comps |-> <<"missing.txt">>, slash |-> FALSE]

path_eq(a, b) == a.comps = b.comps
display(p) == p

\* The members an archive file may hold.  err = "io": the member cannot be
\* read; err = "name": its name is not a usable path.
ItemDir == [path |-> P_dir, kind |-> "dir", size |-> 0, data |-> 0, err |-> "none"]
ItemFile == [path |-> P_file, kind |-> "regular", size |-> 7, data |-> 1, err |-> "none"]
ItemFileDup == [path |-> P_file, kind |-> "regular", size |-> 8, data |-> 2, err |-> "none"]
ItemLink == [path |-> P_link, kind |-> "symlink", size |-> 0, data |-> 3, err |-> "none"]
ItemBadIo == [path |-> P_missing, kind |-> "regular", size |-> 0, data |-> 0, err |-> "io"]
ItemBadName == [path |-> P_missing, kind |-> "regular", size |-> 0, data |-> 0, err |-> "name"]

Items == {ItemDir, ItemFile, ItemFileDup, ItemLink, ItemBadIo, ItemBadName}

MaxEntries == 2

SeqsUpTo(S, n) == UNION {[1..k -> S] : k \in 0..n}

\* A file that is no container at all, and the well-formed containers.
Contents ==
    {[valid |-> FALSE, items |-> <<>>]}
    \cup {[valid |-> TRUE, items |-> s] : s \in SeqsUpTo(Items, MaxEntries)}

\* What a tar reader sees: garbage fails at the first header.
tar_stream(content) == IF content.valid THEN content.items ELSE <<ItemBadIo>>

AllFeatures == {"zip", "tar", "gzip", "bzip2", "xz2", "zstd"}
FeatureSets == {AllFeatures, {"zip"}}

----------------------------------------------------------------------------
(* zip.rs and tar.rs: the two backends behind the Archived trait.          *)

\* ZipEntries::next / convert
zip_convert(index, item) ==
    IF item.err = "io" THEN Err("InvalidArchive")
    ELSE IF item.err = "name" THEN Err("InvalidArchive")
    ELSE Ok([index |-> index, path |-> item.path, size |-> item.size,
             entry_type |-> IF item.kind = "dir" THEN "Directory" ELSE "File"])

\* TarEntries::next / convert
tar_convert(index, item) ==
    IF item.err = "io" THEN Err("Io")
    ELSE IF item.err = "name" THEN Err("Io")
    ELSE Ok([index |-> index, path |-> item.path, size |-> item.size,
             entry_type |-> CASE item.kind = "regular" -> "File"
                              [] item.kind = "dir" -> "Directory"
                              [] OTHER -> "Other"])

\* ZipEntries::next: the position counter runs over 0..len.
zip_next_descending(b, it, content) ==
    IF it.index < Len(content.items)
    THEN [out |-> Some(zip_convert(Len(content.items) - 1 - it.index,
                                   content.items[Len(content.items) - it.index])),
          it |-> [it EXCEPT !.index = it.index + 1], b |-> b]
    ELSE [out |-> None, it |-> it, b |-> b]

zip_next(b, it, content) ==
    IF it.index < Len(content.items)
    THEN [out |-> Some(zip_convert(it.index, content.items[it.index + 1])),
          it |-> [it EXCEPT !.index = it.index + 1], b |-> b]
    ELSE [out |-> None, it |-> it, b |-> b]

\* TarEntries::next over Enumerate<tar::Entries>: the reader's forward
\* cursor; a read error ends the stream.
tar_next(b, it, content) ==
    IF it.done \/ b.pos >= Len(tar_stream(content))
    THEN [out |-> None, it |-> [it EXCEPT !.done = TRUE], b |-> b]
    ELSE LET item == tar_stream(content)[b.pos + 1] IN
         [out |-> Some(tar_convert(it.index, item)),
          it |-> [it EXCEPT !.index = it.index + 1, !.done = (item.err = "io")],
          b |-> [b EXCEPT !.pos = b.pos + 1]]

backend_next(b, it, content) ==
    IF b.kind = "zip" THEN zip_next(b, it, content) ELSE tar_next(b, it, content)

\* Archived::entries: zip starts a counter at 0; tar::Archive::entries
\* refuses a reader that has already moved.
backend_entries(b) ==
    IF b.kind = "tar" /\ b.pos # 0 THEN Err("Io")
    ELSE Ok([index |-> 0, done |-> FALSE])

----------------------------------------------------------------------------
(* archive.rs: the Archive facade.                                         *)

\* Archive::new
archive_new_checking_file(path) ==
    IF ~fileExists THEN Err("Io")
    ELSE IF ~is_archive(infer_from_file_extension(path)) THEN Err("UnsupportedArchive")
    ELSE Ok([format |-> infer_from_file_extension(path), path |-> path])

archive_new(path) ==
    LET format == infer_from_file_extension(path) IN
    IF ~is_archive(format) THEN Err("UnsupportedArchive")
    ELSE Ok([format |-> format, path |-> path])

\* The match of Archive::archived: the backend for a format, if compiled in.
new_backend_zip_for_all(format, feats, content) ==
    IF format \in {"Zip", "Tar", "TarGzip", "TarBzip2", "TarXz2", "TarZstd"}
    THEN Ok([kind |-> "zip", pos |-> 0])
    ELSE Err("UnsupportedArchive")

new_backend(format, feats, content) ==
    CASE format = "Zip" /\ "zip" \in feats ->
            IF content.valid THEN Ok([kind |-> "zip", pos |-> 0])
            ELSE Err("InvalidArchive")
      [] format = "Tar" /\ "tar" \in feats -> Ok([kind |-> "tar", pos |-> 0])
      [] format = "TarGzip" /\ {"tar", "gzip"} \subseteq feats -> Ok([kind |-> "tar", pos |-> 0])
      [] format = "TarBzip2" /\ {"tar", "bzip2"} \subseteq feats -> Ok([kind |-> "tar", pos |-> 0])
      [] format = "TarXz2" /\ {"tar", "xz2"} \subseteq feats -> Ok([kind |-> "tar", pos |-> 0])
      [] format = "TarZstd" /\ {"tar", "zstd"} \subseteq feats -> Ok([kind |-> "tar", pos |-> 0])
      [] OTHER -> Err("UnsupportedArchive")

\* Archive::archived, with the slot it leaves: the file is opened first, the
\* slot is replaced only once the new backend exists.
archived_reusing_slot(a, slot, feats, exists, content) ==
    IF slot # None THEN [res |-> Ok(slot[1]), slot |-> slot]
    ELSE IF ~exists THEN [res |-> Err("Io"), slot |-> slot]
    ELSE LET r == new_backend(a.format, feats, content) IN
         IF r.ok THEN [res |-> r, slot |-> Some(r.val)] ELSE [res |-> r, slot |-> slot]

archived_call_emptying_slot(a, slot, feats, exists, content) ==
    IF ~exists THEN [res |-> Err("Io"), slot |-> None]
    ELSE LET r == new_backend(a.format, feats, content) IN
         IF r.ok THEN [res |-> r, slot |-> Some(r.val)] ELSE [res |-> r, slot |-> None]

archived_call(a, slot, feats, exists, content) ==
    IF ~exists THEN [res |-> Err("Io"), slot |-> slot]
    ELSE LET r == new_backend(a.format, feats, content) IN
         IF r.ok THEN [res |-> r, slot |-> Some(r.val)] ELSE [res |-> r, slot |-> slot]

\* The pass of `for entry in self.entries_iter()? { let entry = entry?; ... }`
\* in Archive::entries: display paths are collected until the first error.
RECURSIVE drain_paths_until_error(_, _, _, _)
drain_paths_until_error(b, it, content, acc) ==
    LET r == backend_next(b, it, content) IN
    IF r.out = None THEN [res |-> Ok(acc), b |-> r.b]
    ELSE IF ~r.out[1].ok THEN [res |-> Ok(acc), b |-> r.b]
    ELSE drain_paths_until_error(r.b, r.it, content,
                                 Append(acc, display(r.out[1].val.path)))

RECURSIVE drain_paths(_, _, _, _)
drain_paths(b, it, content, acc) ==
    LET r == backend_next(b, it, content) IN
    IF r.out = None THEN [res |-> Ok(acc), b |-> r.b]
    ELSE IF ~r.out[1].ok THEN [res |-> Err(r.out[1].err), b |-> r.b]
    ELSE drain_paths(r.b, r.it, content, Append(acc, display(r.out[1].val.path)))

\* The predicates the model hands to find(); "all" is entries_iter() itself.
Preds == {[kind |-> "all", path |-> None], [kind |-> "is_file", path |-> None],
          [kind |-> "is_dir", path |-> None]}
PathPred(p) == [kind |-> "path", path |-> p]

is_dir(e) == e.entry_type = "Directory"
is_file(e) == e.entry_type = "File"

predicate(pred, e) ==
    CASE pred.kind = "all" -> TRUE
      [] pred.kind = "is_file" -> is_file(e)
      [] pred.kind = "is_dir" -> is_dir(e)
      [] pred.kind = "path" -> path_eq(e.path, pred.path)

\* FindEntries::next
RECURSIVE find_next_skipping_errors(_, _, _, _)
find_next_skipping_errors(b, it, content, pred) ==
    LET r == backend_next(b, it, content) IN
    IF r.out = None THEN r
    ELSE IF r.out[1].ok /\ predicate(pred, r.out[1].val) THEN r
    ELSE find_next_skipping_errors(r.b, r.it, content, pred)

RECURSIVE find_next(_, _, _, _)
find_next(b, it, content, pred) ==
    LET r == backend_next(b, it, content) IN
    IF r.out = None THEN r
    ELSE IF ~r.out[1].ok THEN r
    ELSE IF predicate(pred, r.out[1].val) THEN r
    ELSE find_next(r.b, r.it, content, pred)

----------------------------------------------------------------------------
(* The destination tree written by unpack_entry.                           *)

FilePaths == {P_file.comps, P_link.comps}
NoData == 0
EmptyDest == [dirs |-> {}, files |-> [f \in FilePaths |-> NoData]]

Prefixes(comps) == {SubSeq(comps, 1, k) : k \in 0..Len(comps)}
parent(comps) == SubSeq(comps, 1, Len(comps) - 1)

create_dir_all(d, comps) == [d EXCEPT !.dirs = d.dirs \cup Prefixes(comps)]

\* `if let Some(p) = outpath.parent() { if !p.exists() { create_dir_all(p)?; } }`
create_parent(d, comps) ==
    IF parent(comps) \in d.dirs THEN d ELSE create_dir_all(d, parent(comps))

write_file(d, comps, data) == [d EXCEPT !.files[comps] = data]

read_back(d, comps) == IF comps \in FilePaths THEN d.files[comps] ELSE NoData

\* Archived for ZipArchive: unpack_entry
zip_unpack_entry(b, entry, d, content) ==
    LET outpath == entry.path.comps IN
    IF is_dir(entry) THEN [res |-> Ok(None), b |-> b, d |-> create_dir_all(d, outpath)]
    ELSE IF is_file(entry) THEN
        LET d1 == create_parent(d, outpath) IN
        IF entry.index >= Len(content.items)
        THEN [res |-> Err("FileNotFound"), b |-> b, d |-> d1]
        ELSE IF content.items[entry.index + 1].err = "io"
        THEN [res |-> Err("InvalidArchive"), b |-> b, d |-> d1]
        ELSE [res |-> Ok(None), b |-> b,
              d |-> write_file(d1, outpath, content.items[entry.index + 1].data)]
    ELSE [res |-> Ok(None), b |-> b, d |-> d]

\* The re-lookup loop of the tar backend's unpack_entry.
RECURSIVE tar_scan(_, _, _, _)
tar_scan(pos, stream, entry, d) ==
    IF pos >= Len(stream) THEN [res |-> Err("FileNotFound"), pos |-> pos, d |-> d]
    ELSE LET item == stream[pos + 1] IN
         IF item.err # "none" THEN [res |-> Err("Io"), pos |-> pos + 1, d |-> d]
         ELSE IF path_eq(item.path, entry.path)
         THEN [res |-> Ok(None), pos |-> pos + 1,
               d |-> write_file(d, entry.path.comps, item.data)]
         ELSE tar_scan(pos + 1, stream, entry, d)

\* Archived for tar::Archive: unpack_entry
tar_unpack_entry_lookup_first(b, entry, d, content) ==
    LET outpath == entry.path.comps IN
    IF is_dir(entry)
    THEN [res |-> Err("FileNotFound"), b |-> b, d |-> create_dir_all(d, outpath)]
    ELSE IF is_file(entry) THEN
        IF b.pos # 0 THEN [res |-> Err("Io"), b |-> b, d |-> d]
        ELSE LET r == tar_scan(b.pos, tar_stream(content), entry, create_parent(d, outpath)) IN
             [res |-> r.res, b |-> [b EXCEPT !.pos = r.pos],
              d |-> IF r.res.ok THEN r.d ELSE d]
    ELSE [res |-> Err("FileNotFound"), b |-> b, d |-> d]

tar_unpack_entry(b, entry, d, content) ==
    LET outpath == entry.path.comps IN
    IF is_dir(entry)
    THEN [res |-> Err("FileNotFound"), b |-> b, d |-> create_dir_all(d, outpath)]
    ELSE IF is_file(entry) THEN
        LET d1 == create_parent(d, outpath) IN
        IF b.pos # 0 THEN [res |-> Err("Io"), b |-> b, d |-> d1]
        ELSE LET r == tar_scan(b.pos, tar_stream(content), entry, d1) IN
             [res |-> r.res, b |-> [b EXCEPT !.pos = r.pos], d |-> r.d]
    ELSE [res |-> Err("FileNotFound"), b |-> b, d |-> d]

\* ZipArchive::extract: every position in turn, directories created, files
\* created (truncating what is there) and written; the first member that
\* cannot be read, or whose name is no path, ends it with an error.
RECURSIVE zip_extract(_, _, _)
zip_extract(items, i, d) ==
    IF i > Len(items) THEN [res |-> Ok(None), d |-> d]
    ELSE LET item == items[i] IN
         IF item.err # "none" THEN [res |-> Err("InvalidArchive"), d |-> d]
         ELSE IF item.kind = "dir"
         THEN zip_extract(items, i + 1, create_dir_all(d, item.path.comps))
         ELSE zip_extract(items, i + 1,
                          write_file(create_dir_all(d, parent(item.path.comps)),
                                     item.path.comps, item.data))

\* The same, stopping after the first member.
zip_unpack_first_only(b, d, content) ==
    LET r == zip_extract(IF content.items = <<>> THEN <<>> ELSE <<content.items[1]>>, 1, d) IN
    [res |-> r.res, b |-> b, d |-> r.d]

\* Archived for ZipArchive: unpack
zip_unpack(b, d, content) ==
    LET r == zip_extract(content.items, 1, d) IN
    [res |-> r.res, b |-> b, d |-> r.d]

\* tar::Archive::unpack: the stream from its start, each member unpacked over
\* what is there; a member that cannot be read ends it with an error.
RECURSIVE tar_unpack_from(_, _, _)
tar_unpack_from(stream, pos, d) ==
    IF pos >= Len(stream) THEN [res |-> Ok(None), pos |-> pos, d |-> d]
    ELSE LET item == stream[pos + 1] IN
         IF item.err # "none" THEN [res |-> Err("Io"), pos |-> pos + 1, d |-> d]
         ELSE IF item.kind = "dir"
         THEN tar_unpack_from(stream, pos + 1, create_dir_all(d, item.path.comps))
         ELSE tar_unpack_from(stream, pos + 1,
                              write_file(create_dir_all(d, parent(item.path.comps)),
                                         item.path.comps, item.data))

\* Archived for tar::Archive: unpack
tar_unpack(b, d, content) ==
    IF b.pos # 0 THEN [res |-> Err("Io"), b |-> b, d |-> d]
    ELSE LET r == tar_unpack_from(tar_stream(content), b.pos, d) IN
         [res |-> r.res, b |-> [b EXCEPT !.pos = r.pos], d |-> r.d]

backend_unpack(b, d, content) ==
    IF b.kind = "zip" THEN zip_unpack(b, d, content) ELSE tar_unpack(b, d, content)

backend_unpack_entry(b, entry, d, content) ==
    IF b.kind = "zip" THEN zip_unpack_entry(b, entry, d, content)
    ELSE tar_unpack_entry(b, entry, d, content)

----------------------------------------------------------------------------
(* The facade's public calls, each one step.  A call on the Archive ends   *)
(* the borrow of any sequence still held, so it drops that sequence.       *)

Call(op, arg, res, obs) == [op |-> op, arg |-> arg, res |-> res, obs |-> obs]
NoCall == Call("none", None, Ok(None), None)

\* The call before this one, kept when it was the same call with the same
\* argument (the caller repeating itself), else forgotten.
Before(op, arg) == IF last.op = op /\ last.arg = arg THEN last ELSE NoCall

\* The names the facade is opened under.
OpenNames == {<<s_sample, x_zip>>, <<s_sample, x_tar, x_gz>>, <<s_sample, x_gz>>}

LookupPaths == {P_dir, P_dir_bare, P_file, P_missing}

InitFacade ==
    /\ features \in FeatureSets
    /\ fileExists \in BOOLEAN
    /\ fileContent \in Contents
    /\ arch = None
    /\ archived = None
    /\ iter = None
    /\ yielded = <<>>
    /\ held = None
    /\ dest = EmptyDest
    /\ last = NoCall
    /\ prev = NoCall

\* Archive::open
Open(name) ==
    LET r == archive_new(name) IN
    /\ arch' = IF r.ok THEN Some(r.val) ELSE None
    /\ archived' = None
    /\ iter' = None
    /\ yielded' = <<>>
    /\ last' = Call("open", name, IF r.ok THEN Ok(None) ELSE r, None)
    /\ prev' = Before("open", name)
    /\ UNCHANGED <<features, fileExists, fileContent, held, dest, dl>>

\* Archive::entries
Entries ==
    /\ arch # None
    /\ LET a == archived_call(arch[1], archived, features, fileExists, fileContent)
           e == backend_entries(a.res.val)
           r == drain_paths(a.res.val, e.val, fileContent, <<>>)
       IN
       /\ archived' = IF a.res.ok /\ e.ok THEN Some(r.b) ELSE a.slot
       /\ last' = Call("entries", None,
                       IF ~a.res.ok THEN Err(a.res.err)
                       ELSE IF ~e.ok THEN e ELSE r.res, None)
    /\ iter' = None
    /\ yielded' = <<>>
    /\ prev' = Before("entries", None)
    /\ UNCHANGED <<features, fileExists, fileContent, arch, held, dest, dl>>

\* Archive::entries_iter (pred.kind = "all") and Archive::find
Find(pred) ==
    /\ arch # None
    /\ LET a == archived_call(arch[1], archived, features, fileExists, fileContent)
           e == backend_entries(a.res.val)
       IN
       /\ archived' = a.slot
       /\ iter' = IF a.res.ok /\ e.ok THEN Some([pred |-> pred, it |-> e.val, ended |-> FALSE])
                  ELSE None
       /\ last' = Call(IF pred.kind = "all" THEN "entries_iter" ELSE "find", pred,
                       IF ~a.res.ok THEN Err(a.res.err)
                       ELSE IF ~e.ok THEN e ELSE Ok(None), None)
    /\ yielded' = <<>>
    /\ prev' = Before(IF pred.kind = "all" THEN "entries_iter" ELSE "find", pred)
    /\ UNCHANGED <<features, fileExists, fileContent, arch, held, dest, dl>>

\* Iterator::next on the held Entries / FindEntries
IterNext ==
    /\ iter # None
    /\ ~iter[1].ended
    /\ LET r == find_next(archived[1], iter[1].it, fileContent, iter[1].pred) IN
       /\ archived' = Some(r.b)
       /\ iter' = Some([iter[1] EXCEPT !.it = r.it, !.ended = (r.out = None)])
       /\ yielded' = IF r.out = None THEN yielded ELSE Append(yielded, r.out[1])
    /\ UNCHANGED <<features, fileExists, fileContent, arch, held, dest, last, prev, dl>>

\* Archive::entry_by_name
EntryByName(p) ==
    /\ arch # None
    /\ LET a == archived_call(arch[1], archived, features, fileExists, fileContent)
           e == backend_entries(a.res.val)
           r == find_next(a.res.val, e.val, fileContent, PathPred(p))
           res == IF ~a.res.ok THEN Err(a.res.err)
                  ELSE IF ~e.ok THEN e
                  ELSE IF r.out = None THEN Err("FileNotFound")
                  ELSE r.out[1]
       IN
       /\ archived' = IF a.res.ok /\ e.ok THEN Some(r.b) ELSE a.slot
       /\ last' = Call("entry_by_name", p, res, None)
       /\ held' = IF res.ok THEN Some(res.val) ELSE held
    /\ iter' = None
    /\ yielded' = <<>>
    /\ prev' = Before("entry_by_name", p)
    /\ UNCHANGED <<features, fileExists, fileContent, arch, dest, dl>>

\* Archive::unpack_entry, with an Entry the caller holds
UnpackEntry ==
    /\ arch # None
    /\ held # None
    /\ LET a == archived_call(arch[1], archived, features, fileExists, fileContent)
           r == backend_unpack_entry(a.res.val, held[1], dest, fileContent)
       IN
       /\ archived' = IF a.res.ok THEN Some(r.b) ELSE a.slot
       /\ dest' = IF a.res.ok THEN r.d ELSE dest
       /\ last' = Call("unpack_entry", held[1],
                       IF a.res.ok THEN r.res ELSE Err(a.res.err),
                       Some(read_back(dest', held[1].path.comps)))
    /\ iter' = None
    /\ yielded' = <<>>
    /\ prev' = Before("unpack_entry", held[1])
    /\ UNCHANGED <<features, fileExists, fileContent, arch, held, dl>>

\* Archive::unpack
Unpack ==
    /\ arch # None
    /\ LET a == archived_call(arch[1], archived, features, fileExists, fileContent)
           r == backend_unpack(a.res.val, dest, fileContent)
       IN
       /\ archived' = IF a.res.ok THEN Some(r.b) ELSE a.slot
       /\ dest' = IF a.res.ok THEN r.d ELSE dest
       /\ last' = Call("unpack", None, IF a.res.ok THEN r.res ELSE Err(a.res.err), None)
    /\ iter' = None
    /\ yielded' = <<>>
    /\ prev' = Before("unpack", None)
    /\ UNCHANGED <<features, fileExists, fileContent, arch, held, dl>>

\* The world outside: the archive file is removed, or put (back) in place.
FsRemove ==
    /\ fileExists
    /\ fileExists' = FALSE
    /\ last' = Call("fs_remove", None, Ok(None), None)
    /\ prev' = NoCall
    /\ UNCHANGED <<features, fileContent, arch, archived, iter, yielded, held, dest, dl>>

FsCreate ==
    /\ ~fileExists
    /\ fileExists' = TRUE
    /\ last' = Call("fs_create", None, Ok(None), None)
    /\ prev' = NoCall
    /\ UNCHANGED <<features, fileContent, arch, archived, iter, yielded, held, dest, dl>>

Init ==
    /\ InitFacade
    /\ dl = None

Next ==
    \/ \E name \in OpenNames : Open(name)
    \/ Entries
    \/ \E p \in LookupPaths : EntryByName(p)
    \/ UnpackEntry
    \/ FsRemove
    \/ FsCreate

Spec == Init /\ [][Next]_vars

\* The lazy sequences: entries_iter() and find() hand out a sequence the
\* caller steps; any other call drops it.
NextIter ==
    \/ \E name \in OpenNames : Open(name)
    \/ \E pred \in Preds : Find(pred)
    \/ IterNext
    \/ Entries

SpecIter == Init /\ [][NextIter]_vars

\* Every call that needs a pass, after any other, a sequence left half-way
\* included; the file stays in place and every backend is compiled in.
InitPass ==
    /\ InitFacade
    /\ features = AllFeatures
    /\ fileExists
    /\ dl = None

NextPass ==
    \/ \E name \in OpenNames : Open(name)
    \/ \E pred \in Preds : Find(pred)
    \/ IterNext
    \/ \E p \in LookupPaths : EntryByName(p)
    \/ UnpackEntry
    \/ Unpack

SpecPass == InitPass /\ [][NextPass]_vars

\* Entries as another archive yields them: a file entry with a path and a
\* position that the opened archive may or may not have.
ForeignEntries ==
    {[index |-> i, path |-> p, size |-> 7, entry_type |-> "File"] :
        i \in 0..MaxEntries, p \in {P_file, P_link}}

\* The caller takes up an Entry it got from another Archive.
HoldEntry(e) ==
    /\ held' = Some(e)
    /\ UNCHANGED <<features, fileExists, fileContent, arch, archived, iter, yielded,
                   dest, last, prev, dl>>

\* The opened archive is well-formed, every member readable.
InitForeign ==
    /\ InitPass
    /\ fileContent.valid
    /\ \A i \in DOMAIN fileContent.items :
          fileContent.items[i] \in {ItemDir, ItemFile, ItemLink}

NextForeign ==
    \/ \E name \in OpenNames : Open(name)
    \/ \E e \in ForeignEntries : HoldEntry(e)
    \/ UnpackEntry

SpecForeign == InitForeign /\ [][NextForeign]_vars

\* Archive::open alone, over every file name and every build.
SampleContent == [valid |-> TRUE, items |-> <<ItemDir, ItemFile>>]

Builds == {{}, {"zip"}, {"tar"}, {"gzip"}, {"tar", "gzip"}, {"tar", "bzip2"},
           {"tar", "xz2"}, {"tar", "zstd"}, {"zip", "tar"}, AllFeatures}

InitOpen ==
    /\ features \in Builds
    /\ fileExists \in BOOLEAN
    /\ fileContent = SampleContent
    /\ arch = None
    /\ archived = None
    /\ iter = None
    /\ yielded = <<>>
    /\ held = None
    /\ dest = EmptyDest
    /\ last = NoCall
    /\ prev = NoCall
    /\ dl = None

\* Format::infer_from_file_extension
Infer(name) ==
    /\ last' = Call("infer_from_file_extension", name,
                    Ok(infer_from_file_extension(name)), None)
    /\ UNCHANGED <<features, fileExists, fileContent, arch, archived, iter, yielded,
                   held, dest, prev, dl>>

\* Format::is_archive
IsArchive(format) ==
    /\ last' = Call("is_archive", format, Ok(is_archive(format)), None)
    /\ UNCHANGED <<features, fileExists, fileContent, arch, archived, iter, yielded,
                   held, dest, prev, dl>>

\* Format::is_compressed
IsCompressed(format) ==
    /\ last' = Call("is_compressed", format, Ok(is_compressed(format)), None)
    /\ UNCHANGED <<features, fileExists, fileContent, arch, archived, iter, yielded,
                   held, dest, prev, dl>>

NextOpen ==
    \/ \E name \in Names : Open(name)
    \/ Entries

InitFormat ==
    /\ features = AllFeatures
    /\ fileExists = TRUE
    /\ fileContent = SampleContent
    /\ arch = None
    /\ archived = None
    /\ iter = None
    /\ yielded = <<>>
    /\ held = None
    /\ dest = EmptyDest
    /\ last = NoCall
    /\ prev = NoCall
    /\ dl = None

NextFormat ==
    \/ \E name \in InferNames : Infer(name)
    \/ \E format \in Formats : IsArchive(format)
    \/ \E format \in Formats : IsCompressed(format)

SpecFormat == InitFormat /\ [][NextFormat]_vars

SpecOpen == InitOpen /\ [][NextOpen]_vars

----------------------------------------------------------------------------
(* What one fresh pass over the archive yields, stated directly.           *)

ZipPass(content) ==
    [i \in 1..Len(content.items) |-> zip_convert(i - 1, content.items[i])]

TarPass(content) ==
    LET s == tar_stream(content)
        bad == {i \in 1..Len(s) : s[i].err = "io"}
        n == IF bad = {} THEN Len(s) ELSE CHOOSE i \in bad : \A j \in bad : i <= j
    IN [i \in 1..n |-> tar_convert(i - 1, s[i])]

FreshPass(format, content) == IF format = "Zip" THEN ZipPass(content) ELSE TarPass(content)

\* The file is there and a backend for the Archive's format can be built on it.
Openable ==
    /\ arch # None
    /\ fileExists
    /\ new_backend(arch[1].format, features, fileContent).ok

IsPrefix(s, t) == Len(s) <= Len(t) /\ SubSeq(t, 1, Len(s)) = s

----------------------------------------------------------------------------
(* The claims.                                                             *)

\* C1: two entries() calls in a row on the same Archive, over an unchanged
\* file, return the same result; on a readable archive both succeed with the
\* displayed paths of all entries, zip or tar.
C1_EntriesTwiceSame ==
    (last.op = "entries" /\ prev.op = "entries") =>
        /\ last.res = prev.res
        /\ (Openable /\ \A i \in DOMAIN FreshPass(arch[1].format, fileContent) :
                            FreshPass(arch[1].format, fileContent)[i].ok)
             => /\ last.res.ok
                /\ last.res.val = [i \in DOMAIN fileContent.items |->
                                     display(fileContent.items[i].path)]

C1_Witness ==
    /\ last.op = "entries" /\ prev.op = "entries"
    /\ archived # None /\ archived[1].kind = "tar"
    /\ last.res.ok /\ Len(last.res.val) = 2

\* C2: unpack_entry called twice in a row with the same file entry that
\* entry_by_name returned succeeds both times and leaves the same contents at
\* dest/entry.path, also on the forward-only tar backend.
C2_UnpackEntryTwice ==
    (last.op = "unpack_entry" /\ prev.op = "unpack_entry" /\ is_file(last.arg) /\ Openable) =>
        /\ prev.res.ok
        /\ last.res.ok
        /\ last.obs = prev.obs
        /\ last.obs # Some(NoData)

C2_Witness ==
    /\ last.op = "unpack_entry" /\ prev.op = "unpack_entry"
    /\ is_file(last.arg) /\ last.arg.index = 1
    /\ archived # None /\ archived[1].kind = "tar" /\ archived[1].pos = 2
    /\ last.res.ok /\ last.obs = Some(1)

\* C3 as claimed: entry_by_name(p) returns the first entry of one fresh pass
\* whose path equals p, and FileNotFound when no entry has path p and the pass
\* yields no error.
C3_Original ==
    (last.op = "entry_by_name" /\ Openable) =>
        LET pass == FreshPass(arch[1].format, fileContent)
            hits == {i \in DOMAIN pass : pass[i].ok /\ path_eq(pass[i].val.path, last.arg)}
        IN /\ hits # {} => last.res = pass[CHOOSE i \in hits : \A j \in hits : i <= j]
           /\ (hits = {} /\ \A i \in DOMAIN pass : pass[i].ok) => last.res = Err("FileNotFound")

\* C3 amended: entry_by_name(p) returns the first item of one fresh pass that
\* is an error or an entry whose path equals p, and FileNotFound when the pass
\* ends without either.
C3_FirstMatchOrError ==
    (last.op = "entry_by_name" /\ Openable) =>
        LET pass == FreshPass(arch[1].format, fileContent)
            stops == {i \in DOMAIN pass : ~pass[i].ok \/ path_eq(pass[i].val.path, last.arg)}
        IN last.res = IF stops = {} THEN Err("FileNotFound")
                      ELSE pass[CHOOSE i \in stops : \A j \in stops : i <= j]

C3_Witness ==
    /\ last.op = "entry_by_name" /\ Openable
    /\ fileContent.items = <<ItemFileDup, ItemFile>>
    /\ last.res.ok /\ last.res.val.index = 0 /\ last.res.val.size = 8

\* C4: unpack_entry with a directory entry creates dest/entry.path and returns
\* Ok, on every backend.
C4_DirEntryOk ==
    (last.op = "unpack_entry" /\ is_dir(last.arg) /\ Openable) =>
        /\ last.res.ok
        /\ last.arg.path.comps \in dest.dirs

ArchiveFormats == {"Zip", "Tar", "TarGzip", "TarBzip2", "TarXz2", "TarZstd"}

\* C6: open(path) returns UnsupportedArchive whenever the inferred format is
\* bare Gzip, Bzip2, Xz, Zstd or Unknown, and Ok only for a name inferring
\* Zip, Tar or a Tar+codec format.
C6_OpenRejectsNonArchives ==
    last.op = "open" =>
        /\ infer_from_file_extension(last.arg) \in {"Gzip", "Bzip2", "Xz2", "Zstd", "Unknown"}
             => (last.res = Err("UnsupportedArchive") /\ arch = None)
        /\ last.res.ok => infer_from_file_extension(last.arg) \in ArchiveFormats

C6_Witness ==
    /\ last.op = "open"
    /\ last.arg = <<s_sample, s_txt, x_gz>>
    /\ last.res = Err("UnsupportedArchive")

\* The features a format's backend needs.
Needs(format) ==
    CASE format = "Zip" -> {"zip"}
      [] format = "Tar" -> {"tar"}
      [] format = "TarGzip" -> {"tar", "gzip"}
      [] format = "TarBzip2" -> {"tar", "bzip2"}
      [] format = "TarXz2" -> {"tar", "xz2"}
      [] format = "TarZstd" -> {"tar", "zstd"}
      [] OTHER -> {}

\* C7: open(path) fails with UnsupportedArchive when the inferred format is
\* archive-shaped and its backend is not compiled in.
C7_OpenNeedsBackend ==
    (/\ last.op = "open"
     /\ infer_from_file_extension(last.arg) \in ArchiveFormats
     /\ ~(Needs(infer_from_file_extension(last.arg)) \subseteq features))
    => last.res = Err("UnsupportedArchive")

\* C8: open(path) does not touch the file: it succeeds for an archive-shaped
\* name with no file at path and leaves the backend slot empty; the missing
\* file is an Io error of the first call that needs a pass.
C8_OpenDoesNotTouchFile ==
    /\ (last.op = "open" /\ infer_from_file_extension(last.arg) \in ArchiveFormats)
         => (last.res.ok /\ arch # None /\ archived = None)
    /\ (last.op = "entries" /\ ~fileExists)
         => (last.res = Err("Io") /\ archived = None)

C8_Witness ==
    /\ last.op = "entries"
    /\ ~fileExists
    /\ arch # None
    /\ last.res = Err("Io")

\* C9: the sequence find(pred) returns yields, in order, exactly the entries
\* of one fresh pass that satisfy pred, and each error of that pass at its
\* position.
C9_FindYieldsFiltered ==
    iter # None =>
        LET pass == FreshPass(arch[1].format, fileContent)
            want == SelectSeq(pass, LAMBDA r : ~r.ok \/ predicate(iter[1].pred, r.val))
        IN /\ IsPrefix(yielded, want)
           /\ iter[1].ended => yielded = want

C9_Witness ==
    /\ iter # None /\ iter[1].ended
    /\ iter[1].pred.kind = "is_file"
    /\ fileContent.items = <<ItemBadName, ItemFile>>
    /\ Len(yielded) = 2 /\ ~yielded[1].ok /\ yielded[2].ok

----------------------------------------------------------------------------
(* download.rs: the Downloader builder and download().                     *)
(* A URL and a directory are sequences of path components, each a file     *)
(* name; a file system is [dirs, files], a file being the chunks written   *)
(* to it, each <<offset in the body, length>>.                             *)

DotDot == << <<>>, <<>>, <<>> >>
n_http == << <<"h","t","t","p",":">> >>
n_host == << <<"h","o","s","t">> >>
n_out == << <<"o","u","t">> >>
n_tmp == << <<"t","m","p">> >>

Urls == {<<n_http, n_host, <<s_sample, x_zip>>>>,
         <<n_http, n_host, <<s_sample, x_tar, x_gz>>>>,
         <<n_http, n_host, <<s_sample, x_gz>>>>,
         <<n_http, n_host, <<s_sample, x_zip>>, DotDot>>,
         <<n_http, n_host>>}

\* Path::new(&self.url.0).file_name()
file_name(url) ==
    IF url = <<>> \/ url[Len(url)] = DotDot THEN None ELSE Some(url[Len(url)])

DlFiles ==
    {<<d, file_name(u)[1]>> : d \in {n_out, n_tmp}, u \in {v \in Urls : file_name(v) # None}}

BufSize == 16384
MaxShortReads == 2
MaxInterrupts == 1
MaxUses == 2

\* What the server answers: the GET fails, or a status with an optional
\* content-length header and a body of some length.
Responses ==
    {[status |-> st, header |-> None, body |-> 0] : st \in {"transport", "404"}}
    \cup {[status |-> "200", header |-> h, body |-> n] :
            h \in {None, Some([digits |-> FALSE, value |-> 0])}, n \in {0, 2}}
    \cup {[status |-> "200", header |-> Some([digits |-> TRUE, value |-> n]), body |-> n] :
            n \in {0, 1, 2, BufSize, BufSize + 1}}

\* Downloader::get
get_any_status(url, response) ==
    IF response.status = "transport" THEN Err("InvalidRequest") ELSE Ok(response)

get(url, response) ==
    IF response.status # "200" THEN Err("InvalidRequest") ELSE Ok(response)

\* response.header("content-length") ... .parse::<u64>()
content_length_or_zero(response) ==
    IF response.header = None THEN Ok(0)
    ELSE IF ~response.header[1].digits THEN Ok(0)
    ELSE Ok(response.header[1].value)

content_length(response) ==
    IF response.header = None THEN Err("InvalidRequest")
    ELSE IF ~response.header[1].digits THEN Err("InvalidRequest")
    ELSE Ok(response.header[1].value)

\* Downloader::storage, with the file system it leaves (tempfile::tempdir()
\* creates the temporary directory).
storage(url, dst, fs) ==
    IF file_name(url) = None THEN [res |-> Err("InvalidUrl"), fs |-> fs]
    ELSE IF dst.kind = "TempDir"
    THEN [res |-> Ok([kind |-> "FileInTempDirectory", temp |-> <<n_tmp>>,
                      file_name |-> file_name(url)[1]]),
          fs |-> [fs EXCEPT !.dirs = fs.dirs \cup {<<>>, <<n_tmp>>}]]
    ELSE [res |-> Ok([kind |-> "FileOnDisk", path |-> Append(dst.dir, file_name(url)[1])]),
          fs |-> fs]

\* Storage::as_path
as_path(st) ==
    IF st.kind = "FileOnDisk" THEN st.path ELSE Append(st.temp, st.file_name)

\* File::create: the parent must be a directory and the path itself not one.
file_create(fs, path) ==
    IF path \in fs.dirs \/ parent(path) \notin fs.dirs
    THEN [res |-> Err("Io"), fs |-> fs]
    ELSE [res |-> Ok(None), fs |-> [fs EXCEPT !.files[path] = Some(<<>>)]]

storage_create(st, fs) ==
    file_create(IF st.kind = "FileOnDisk" THEN create_dir_all(fs, st.path) ELSE fs,
                as_path(st))

\* Dropping a Storage: a TempDir removes its directory and what is in it.
drop_storage_leaving_files(st, fs) == fs

drop_storage(st, fs) ==
    IF st.kind = "FileInTempDirectory"
    THEN [dirs |-> fs.dirs \ {st.temp},
          files |-> [f \in DOMAIN fs.files |->
                        IF parent(f) = st.temp THEN None ELSE fs.files[f]]]
    ELSE fs

\* Archive::new(storage), as download() returns it.
archive_of(st) ==
    LET r == archive_new(as_path(st)[Len(as_path(st))]) IN
    IF r.ok THEN Ok([format |-> r.val.format, path |-> as_path(st), storage |-> st]) ELSE r

append_chunk(fs, path, off, len) ==
    [fs EXCEPT !.files[path] = Some(Append(fs.files[path][1], <<off, len>>))]

EmptyFs == [dirs |-> {<<>>}, files |-> [f \in DlFiles |-> None]]

\* download() returns: a Storage that is not handed to the Archive is dropped.
returned(d, res, fs, st) ==
    [d EXCEPT !.pc = "done", !.res = res,
              !.fs = IF res.ok \/ st = None THEN fs ELSE drop_storage(st[1], fs),
              !.st = IF res.ok THEN st ELSE None,
              !.materialized = (st # None)]

\* Downloader<UrlProvided, DestProvided, OnProgressNotProvided>::download;
\* copied tells whether io::copy went through.
download_plain(d, copied) ==
    LET g == get(d.url[1], d.response) IN
    IF ~g.ok THEN returned(d, g, d.fs, None) ELSE
    LET s == storage(d.url[1], d.dst[1], d.fs) IN
    IF ~s.res.ok THEN returned(d, s.res, s.fs, None) ELSE
    LET st == s.res.val
        c == storage_create(st, s.fs) IN
    IF ~c.res.ok THEN returned(d, c.res, c.fs, Some(st)) ELSE
    IF ~copied THEN returned([d EXCEPT !.fault = TRUE], Err("Io"), c.fs, Some(st)) ELSE
    returned(d, archive_of(st),
             IF d.response.body > 0
             THEN append_chunk(c.fs, as_path(st), 0, d.response.body) ELSE c.fs,
             Some(st))

\* Downloader<.., OnProgressProvided<F>>::download up to its loop.
download_start_storage_first(d) ==
    LET g == get(d.url[1], d.response) IN
    IF ~g.ok THEN returned(d, g, d.fs, None) ELSE
    LET s == storage(d.url[1], d.dst[1], d.fs) IN
    IF ~s.res.ok THEN returned(d, s.res, s.fs, None) ELSE
    LET st == s.res.val
        c == storage_create(st, s.fs) IN
    IF ~c.res.ok THEN returned(d, c.res, c.fs, Some(st)) ELSE
    LET n == content_length(d.response) IN
    IF ~n.ok THEN returned(d, n, c.fs, Some(st)) ELSE
    [d EXCEPT !.pc = "loop", !.fs = c.fs, !.st = Some(st), !.total = n.val,
              !.written = 0, !.src = 0, !.calls = <<>>, !.materialized = TRUE]

download_start(d) ==
    LET g == get(d.url[1], d.response) IN
    IF ~g.ok THEN returned(d, g, d.fs, None) ELSE
    LET n == content_length(d.response) IN
    IF ~n.ok THEN returned(d, n, d.fs, None) ELSE
    LET s == storage(d.url[1], d.dst[1], d.fs) IN
    IF ~s.res.ok THEN returned(d, s.res, s.fs, None) ELSE
    LET st == s.res.val
        c == storage_create(st, s.fs) IN
    IF ~c.res.ok THEN returned(d, c.res, c.fs, Some(st)) ELSE
    [d EXCEPT !.pc = "loop", !.fs = c.fs, !.st = Some(st), !.total = n.val,
              !.written = 0, !.src = 0, !.calls = <<>>, !.materialized = TRUE]

Min(a, b) == IF a < b THEN a ELSE b

\* What source.read(&mut buf) may do next: end of body, some bytes (all the
\* buffer takes, or a short read of one), an interruption, a failure; and
\* whether the write of the bytes read goes through.
Outcomes(d) ==
    LET left == d.response.body - d.src IN
    (IF left = 0 THEN {[kind |-> "eof", len |-> 0]}
     ELSE {[kind |-> k, len |-> Min(BufSize, left)] : k \in {"data", "werror"}}
          \cup (IF d.short < MaxShortReads THEN {[kind |-> "data", len |-> 1]} ELSE {}))
    \cup (IF d.intr < MaxInterrupts THEN {[kind |-> "interrupted", len |-> 0]} ELSE {})
    \cup {[kind |-> "error", len |-> 0]}

\* One turn of the loop of download(): the callback, the read, the write.
loop_iteration_callback_last(d, o) ==
    CASE o.kind = "eof" -> returned(d, archive_of(d.st[1]), d.fs, d.st)
      [] o.kind = "data" ->
            [d EXCEPT !.fs = append_chunk(d.fs, as_path(d.st[1]), d.src, o.len),
                      !.written = d.written + o.len, !.src = d.src + o.len,
                      !.short = IF o.len < Min(BufSize, d.response.body - d.src)
                                THEN d.short + 1 ELSE d.short,
                      !.calls = Append(d.calls, <<d.written + o.len, d.total>>)]
      [] o.kind = "werror" -> returned([d EXCEPT !.fault = TRUE], Err("Io"), d.fs, d.st)
      [] o.kind = "interrupted" -> [d EXCEPT !.intr = d.intr + 1]
      [] o.kind = "error" -> returned([d EXCEPT !.fault = TRUE], Err("Io"), d.fs, d.st)

loop_iteration_reporting_remaining(d, o) ==
    LET d1 == [d EXCEPT !.calls = Append(d.calls, <<d.written, d.total - d.written>>)] IN
    CASE o.kind = "eof" -> returned(d1, archive_of(d.st[1]), d.fs, d.st)
      [] o.kind = "data" ->
            [d1 EXCEPT !.fs = append_chunk(d.fs, as_path(d.st[1]), d.src, o.len),
                       !.written = d.written + o.len, !.src = d.src + o.len,
                       !.short = IF o.len < Min(BufSize, d.response.body - d.src)
                                 THEN d.short + 1 ELSE d.short]
      [] o.kind = "werror" -> returned([d1 EXCEPT !.fault = TRUE], Err("Io"), d.fs, d.st)
      [] o.kind = "interrupted" -> [d1 EXCEPT !.intr = d.intr + 1]
      [] o.kind = "error" -> returned([d1 EXCEPT !.fault = TRUE], Err("Io"), d.fs, d.st)

loop_iteration_no_retry(d, o) ==
    LET d1 == [d EXCEPT !.calls = Append(d.calls, <<d.written, d.total>>)] IN
    CASE o.kind = "eof" -> returned(d1, archive_of(d.st[1]), d.fs, d.st)
      [] o.kind = "data" ->
            [d1 EXCEPT !.fs = append_chunk(d.fs, as_path(d.st[1]), d.src, o.len),
                       !.written = d.written + o.len, !.src = d.src + o.len,
                       !.short = IF o.len < Min(BufSize, d.response.body - d.src)
                                 THEN d.short + 1 ELSE d.short]
      [] OTHER -> returned([d1 EXCEPT !.fault = TRUE, !.intr = d.intr + 1],
                           Err("Io"), d.fs, d.st)

loop_iteration(d, o) ==
    LET d1 == [d EXCEPT !.calls = Append(d.calls, <<d.written, d.total>>)] IN
    CASE o.kind = "eof" -> returned(d1, archive_of(d.st[1]), d.fs, d.st)
      [] o.kind = "data" ->
            [d1 EXCEPT !.fs = append_chunk(d.fs, as_path(d.st[1]), d.src, o.len),
                       !.written = d.written + o.len, !.src = d.src + o.len,
                       !.short = IF o.len < Min(BufSize, d.response.body - d.src)
                                 THEN d.short + 1 ELSE d.short]
      [] o.kind = "werror" -> returned([d1 EXCEPT !.fault = TRUE], Err("Io"), d.fs, d.st)
      [] o.kind = "interrupted" -> [d1 EXCEPT !.intr = d.intr + 1]
      [] o.kind = "error" -> returned([d1 EXCEPT !.fault = TRUE], Err("Io"), d.fs, d.st)

NoDownloader ==
    [pc |-> "idle", url |-> None, dst |-> None, prog |-> FALSE, response |-> None,
     fs |-> EmptyFs, st |-> None, total |-> 0, written |-> 0, src |-> 0,
     short |-> 0, intr |-> 0, calls |-> <<>>, res |-> Ok(None), fault |-> FALSE,
     built |-> [url |-> 0, dest |-> 0, on_progress |-> 0], uses |-> 0,
     materialized |-> FALSE]

InitDownload ==
    /\ features = AllFeatures
    /\ fileExists = FALSE
    /\ fileContent = SampleContent
    /\ arch = None
    /\ archived = None
    /\ iter = None
    /\ yielded = <<>>
    /\ held = None
    /\ dest = EmptyDest
    /\ last = NoCall
    /\ prev = NoCall
    /\ \E r \in Responses, out \in BOOLEAN :
          dl = [NoDownloader EXCEPT
                  !.response = r,
                  !.fs = IF out THEN create_dir_all(EmptyFs, <<n_out>>) ELSE EmptyFs]

facade == <<features, fileExists, fileContent, arch, archived, iter, yielded,
            held, dest, last, prev>>

\* Downloader::new
DlNew ==
    /\ dl.pc = "idle"
    /\ dl' = [dl EXCEPT !.pc = "building"]
    /\ UNCHANGED facade

\* Downloader<UrlMissing, D, O>::url
DlUrl_any_state(u) ==
    /\ dl.pc = "building" /\ dl.built.url < 2
    /\ dl' = [dl EXCEPT !.url = Some(u), !.built.url = @ + 1]
    /\ UNCHANGED facade

DlUrl(u) ==
    /\ dl.pc = "building" /\ dl.url = None
    /\ dl' = [dl EXCEPT !.url = Some(u), !.built.url = @ + 1]
    /\ UNCHANGED facade

\* Downloader<U, DestMissing, O>::to_temp
DlToTemp ==
    /\ dl.pc = "building" /\ dl.dst = None
    /\ dl' = [dl EXCEPT !.dst = Some([kind |-> "TempDir", dir |-> None]),
                         !.built.dest = @ + 1]
    /\ UNCHANGED facade

\* Downloader<U, DestMissing, O>::to_directory
DlToDirectory(dir) ==
    /\ dl.pc = "building" /\ dl.dst = None
    /\ dl' = [dl EXCEPT !.dst = Some([kind |-> "Dir", dir |-> dir]),
                         !.built.dest = @ + 1]
    /\ UNCHANGED facade

\* Downloader<U, D, OnProgressNotProvided>::on_progress
DlOnProgress ==
    /\ dl.pc = "building" /\ ~dl.prog
    /\ dl' = [dl EXCEPT !.prog = TRUE, !.built.on_progress = @ + 1]
    /\ UNCHANGED facade

\* download() without a callback
DlDownload ==
    /\ dl.pc = "building" /\ dl.url # None /\ dl.dst # None /\ ~dl.prog
    /\ \E copied \in BOOLEAN : dl' = download_plain(dl, copied)
    /\ UNCHANGED facade

\* download() with a callback, up to the loop
DlDownloadProgress ==
    /\ dl.pc = "building" /\ dl.url # None /\ dl.dst # None /\ dl.prog
    /\ dl' = download_start(dl)
    /\ UNCHANGED facade

\* one turn of the loop
DlLoop ==
    /\ dl.pc = "loop"
    /\ \E o \in Outcomes(dl) : dl' = loop_iteration(dl, o)
    /\ UNCHANGED facade

\* An operation of the downloaded Archive that needs a pass: Archive::archived
\* opens the file at path() and builds the backend.
DlArchived ==
    /\ dl.pc = "done" /\ dl.res.ok /\ dl.uses < MaxUses
    /\ LET a == dl.res.val
           r == archived_call(a, archived, features, dl.fs.files[a.path] # None, fileContent)
       IN
       /\ arch' = Some([format |-> a.format, path |-> a.path[Len(a.path)]])
       /\ archived' = r.slot
       /\ last' = Call("archived", None, IF r.res.ok THEN Ok(None) ELSE r.res, None)
    /\ dl' = [dl EXCEPT !.uses = @ + 1]
    /\ UNCHANGED <<features, fileExists, fileContent, iter, yielded, held, dest, prev>>

\* The caller drops the Archive that download() returned: its Storage and its
\* cached backend go with it.
DlDropArchive ==
    /\ dl.pc = "done" /\ dl.res.ok
    /\ dl' = [dl EXCEPT !.pc = "dropped", !.fs = drop_storage(dl.st[1], dl.fs),
                         !.st = None]
    /\ arch' = None
    /\ archived' = None
    /\ UNCHANGED <<features, fileExists, fileContent, iter, yielded, held, dest, last, prev>>

NextDownload ==
    \/ DlNew
    \/ \E u \in Urls : DlUrl(u)
    \/ DlToTemp
    \/ DlToDirectory(<<n_out>>)
    \/ DlOnProgress
    \/ DlDownload
    \/ DlDownloadProgress
    \/ DlLoop
    \/ DlArchived
    \/ DlDropArchive

SpecDownload == InitDownload /\ [][NextDownload]_vars

RECURSIVE BytesOf(_)
BytesOf(chunks) ==
    IF chunks = <<>> THEN 0
    ELSE BytesOf(SubSeq(chunks, 1, Len(chunks) - 1)) + chunks[Len(chunks)][2]

\* The file holds the first n bytes of the body, in order.
HoldsBody(file, n) ==
    /\ file # None
    /\ BytesOf(file[1]) = n
    /\ \A i \in DOMAIN file[1] : file[1][i][1] = BytesOf(SubSeq(file[1], 1, i - 1))

\* C5: download() with to_directory(d) creates d, writes the body to
\* d/<file name of the URL> and returns an Archive whose path() is that file.
C5_ToDirectory ==
    (/\ dl.pc = "done"
     /\ dl.dst[1].kind = "Dir"
     /\ dl.response.status = "200"
     /\ dl.prog => content_length(dl.response).ok
     /\ file_name(dl.url[1]) # None
     /\ is_archive(infer_from_file_extension(file_name(dl.url[1])[1]))
     /\ ~dl.fault)
    => /\ dl.dst[1].dir \in dl.fs.dirs
       /\ HoldsBody(dl.fs.files[Append(dl.dst[1].dir, file_name(dl.url[1])[1])],
                    dl.response.body)
       /\ dl.res.ok
       /\ dl.res.val.path = Append(dl.dst[1].dir, file_name(dl.url[1])[1])

\* C10: when download() with a progress callback succeeds, the callback was
\* invoked at least once, first with (0, total) and last with (total, total),
\* total being the content-length, equal to the length of the body.
C10_ProgressFirstLast ==
    (dl.pc = "done" /\ dl.prog /\ dl.res.ok) =>
        /\ Len(dl.calls) >= 1
        /\ dl.calls[1] = <<0, dl.response.body>>
        /\ dl.calls[Len(dl.calls)] = <<dl.response.body, dl.response.body>>

C10_Witness ==
    /\ dl.pc = "done" /\ dl.prog /\ dl.res.ok
    /\ dl.response.body = BufSize + 1
    /\ dl.intr = 1
    /\ Len(dl.calls) = 4

\* C11: download() is Err(InvalidRequest) whenever the GET fails at
\* transport level or with an error status, with or without a callback.
C11_GetFailure ==
    (dl.pc = "done" /\ dl.response.status # "200") => dl.res = Err("InvalidRequest")

C11_Witness ==
    /\ dl.pc = "done" /\ dl.response.status = "404" /\ ~dl.prog
    /\ dl.res = Err("InvalidRequest")

\* C12: after a successful GET, download() with a callback is
\* Err(InvalidRequest) when content-length is absent or does not parse;
\* download() without a callback never fails for the header, and succeeds
\* without it (to a temporary directory, an archive name, no I/O failure).
C12_ContentLength ==
    (dl.pc = "done" /\ dl.response.status = "200") =>
        /\ (dl.prog /\ (dl.response.header = None \/ ~dl.response.header[1].digits))
               => dl.res = Err("InvalidRequest")
        /\ ~dl.prog => dl.res # Err("InvalidRequest")
        /\ (/\ ~dl.prog
            /\ dl.response.header = None
            /\ dl.dst[1].kind = "TempDir"
            /\ file_name(dl.url[1]) # None
            /\ is_archive(infer_from_file_extension(file_name(dl.url[1])[1]))
            /\ ~dl.fault)
               => /\ dl.res.ok
                  /\ HoldsBody(dl.fs.files[dl.res.val.path], dl.response.body)

C12_Witness ==
    /\ dl.pc = "done" /\ dl.prog /\ dl.response.status = "200"
    /\ dl.response.header # None /\ ~dl.response.header[1].digits
    /\ dl.res = Err("InvalidRequest")

\* C13: a chain of builder calls that reaches download() holds exactly one
\* url(), exactly one of to_temp()/to_directory() and at most one
\* on_progress().
C13_Typestate ==
    dl.pc \in {"loop", "done"} =>
        /\ dl.built.url = 1 /\ dl.url # None
        /\ dl.built.dest = 1 /\ dl.dst # None
        /\ dl.built.on_progress = (IF dl.prog THEN 1 ELSE 0)

C13_Witness ==
    /\ dl.pc = "done" /\ dl.res.ok
    /\ dl.built = [url |-> 1, dest |-> 1, on_progress |-> 1]

\* The URL has no final path segment: nothing follows the host, or the
\* path ends in "..".
no_final_segment(url) == Len(url) <= 2 \/ url[Len(url)] = DotDot

\* C14: after a successful GET (and, with a callback, a content-length that
\* parses) download() is Err(InvalidUrl) when the URL has no final path
\* segment to take a file name from.
C14_InvalidUrl ==
    (/\ dl.pc = "done"
     /\ dl.response.status = "200"
     /\ dl.prog => content_length(dl.response).ok
     /\ no_final_segment(dl.url[1]))
    => dl.res = Err("InvalidUrl")

\* C15: the file downloaded by to_temp() is at path() while the Archive is
\* alive, whatever is done with the Archive, and the temporary directory
\* and the file are gone once the Archive is dropped.
C15_TempLifetime ==
    /\ (dl.pc = "done" /\ dl.res.ok /\ dl.dst[1].kind = "TempDir") =>
           /\ parent(dl.res.val.path) \in dl.fs.dirs
           /\ HoldsBody(dl.fs.files[dl.res.val.path], dl.response.body)
           /\ (dl.uses > 0 /\ last.op = "archived") => last.res.err # "Io"
    /\ (dl.pc = "dropped" /\ dl.dst[1].kind = "TempDir") =>
           /\ parent(dl.res.val.path) \notin dl.fs.dirs
           /\ dl.fs.files[dl.res.val.path] = None

C15_Witness ==
    /\ dl.pc = "dropped" /\ dl.dst[1].kind = "TempDir"
    /\ dl.uses = 2 /\ dl.response.body > 0
    /\ dl.fs.files[dl.res.val.path] = None

\* The name, lower-cased, ends in .e1.e2 / in .e; with_stem asks in addition
\* that something precedes the suffix.
ends_in2(name, e1, e2, with_stem) ==
    /\ Len(name) >= 3
    /\ to_ascii_lowercase(name[Len(name) - 1]) = e1
    /\ to_ascii_lowercase(name[Len(name)]) = e2
    /\ with_stem => ~(Len(name) = 3 /\ name[1] = <<>>)

ends_in(name, e, with_stem) ==
    /\ Len(name) >= 2
    /\ to_ascii_lowercase(name[Len(name)]) = e
    /\ with_stem => ~(Len(name) = 2 /\ name[1] = <<>>)

\* The format the suffixes of a name stand for, compound suffixes first.
format_of_suffix(name, with_stem) ==
    CASE ends_in2(name, x_tar, x_gz, with_stem) \/ ends_in(name, x_tgz, with_stem) -> "TarGzip"
      [] ends_in2(name, x_tar, x_bz2, with_stem) -> "TarBzip2"
      [] ends_in2(name, x_tar, x_xz, with_stem) -> "TarXz2"
      [] ends_in2(name, x_tar, x_zst, with_stem)
            \/ ends_in2(name, x_tar, x_zstd, with_stem) -> "TarZstd"
      [] OTHER ->
            CASE ends_in(name, x_zip, with_stem) -> "Zip"
              [] ends_in(name, x_tar, with_stem) -> "Tar"
              [] ends_in(name, x_gz, with_stem) -> "Gzip"
              [] ends_in(name, x_bz2, with_stem) -> "Bzip2"
              [] ends_in(name, x_xz, with_stem) -> "Xz2"
              [] ends_in(name, x_zst, with_stem) \/ ends_in(name, x_zstd, with_stem) -> "Zstd"
              [] OTHER -> "Unknown"

\* C16 as stated: infer_from_file_extension gives, for every name, the
\* format its suffix stands for in any letter case, compound suffixes before
\* single ones, and Unknown for any other name.
C16_Original ==
    last.op = "infer_from_file_extension" =>
        last.res = Ok(format_of_suffix(last.arg, FALSE))

\* C16: the same, a suffix counting only when the file name has something
\* before it (".zip" is Unknown, ".tar.gz" is Gzip).
C16_InferBySuffix ==
    last.op = "infer_from_file_extension" =>
        /\ last.res.ok /\ last.res.val \in Formats
        /\ last.res = Ok(format_of_suffix(last.arg, TRUE))

C16_Witness ==
    /\ last.op = "infer_from_file_extension"
    /\ last.arg = <<s_sample, <<"T","a","R">>, <<"B","Z","2">>>>
    /\ last.res = Ok("TarBzip2")

\* C17: is_archive() is true exactly for Zip, Tar and the four Tar+codec
\* formats; is_compressed() is true for every format but Tar, Unknown included.
C17_Predicates ==
    /\ last.op = "is_archive" =>
          (last.res.val <=> last.arg \in {"Zip", "Tar", "TarGzip", "TarBzip2",
                                          "TarXz2", "TarZstd"})
    /\ last.op = "is_compressed" => (last.res.val <=> last.arg # "Tar")

C17_Witness ==
    last.op = "is_compressed" /\ last.arg = "Unknown" /\ last.res = Ok(TRUE)

\* C18 as stated: after unpack(dest) returns Ok, every file entry of the
\* archive is under dest at its path with that entry's bytes, whatever was
\* done with the Archive before.
C18_Original ==
    (last.op = "unpack" /\ last.res.ok) =>
        \A i \in DOMAIN fileContent.items :
            fileContent.items[i].kind = "regular" =>
                /\ parent(fileContent.items[i].path.comps) \in dest.dirs
                /\ read_back(dest, fileContent.items[i].path.comps) = fileContent.items[i].data

\* C18: the same with, at each path, the bytes of the last file entry of
\* that path: entries are unpacked in order, each over what is there.
C18_UnpackAll ==
    (last.op = "unpack" /\ last.res.ok) =>
        \A i \in DOMAIN fileContent.items :
            (/\ fileContent.items[i].kind = "regular"
             /\ \A j \in DOMAIN fileContent.items :
                    (j > i) => ~path_eq(fileContent.items[j].path, fileContent.items[i].path))
            => /\ parent(fileContent.items[i].path.comps) \in dest.dirs
               /\ read_back(dest, fileContent.items[i].path.comps) = fileContent.items[i].data

C18_Witness ==
    /\ last.op = "unpack" /\ last.res.ok
    /\ arch[1].format = "TarGzip"
    /\ fileContent.items = <<ItemDir, ItemFile>>
    /\ dest.files[P_file.comps] = ItemFile.data

\* C19: a sequence of all entries yields them in the container's order
\* without sorting: for zip positions 0, 1, ..., count-1, each once, an error
\* at a position included, and then it ends; for tar the members in stream
\* order, until the stream is exhausted (a read failure ends the stream).
C19_NativeOrder ==
    (iter # None /\ iter[1].pred.kind = "all") =>
        LET zip == arch[1].format = "Zip"
            items == IF zip THEN fileContent.items ELSE tar_stream(fileContent)
        IN /\ Len(yielded) <= Len(items)
           /\ \A k \in DOMAIN yielded :
                 /\ yielded[k] = IF zip THEN zip_convert(k - 1, items[k])
                                 ELSE tar_convert(k - 1, items[k])
                 /\ yielded[k].ok => yielded[k].val.index = k - 1
                 /\ (~zip /\ k < Len(yielded)) => items[k].err # "io"
           /\ iter[1].ended =>
                 \/ Len(yielded) = Len(items)
                 \/ ~zip /\ yielded # <<>> /\ items[Len(yielded)].err = "io"

C19_Witness ==
    /\ iter # None /\ iter[1].ended /\ iter[1].pred.kind = "all"
    /\ arch[1].format = "Zip"
    /\ fileContent.items = <<ItemBadIo, ItemDir>>
    /\ Len(yielded) = 2 /\ ~yielded[1].ok /\ yielded[2].ok

\* The backend Archive::archived builds when nothing is reused.
FreshBackend == new_backend(arch[1].format, features, fileContent).val

\* C20: whatever was called before, a sequence left half-way included, each
\* call of entries_iter(), find(), entry_by_name(), unpack() or unpack_entry()
\* works on a newly built backend: its pass starts at the first entry, and
\* its result is the one a new backend gives.
C20_FreshBackendEachCall ==
    Openable =>
        /\ last.op \in {"entries_iter", "find"} =>
              /\ last.res.ok /\ iter # None /\ archived # None
              /\ archived[1].kind = "tar" => archived[1].pos = iter[1].it.index
              /\ archived[1].kind = "zip" => archived[1] = FreshBackend
        /\ last.op = "entry_by_name" =>
              LET r == find_next(FreshBackend, backend_entries(FreshBackend).val,
                                 fileContent, PathPred(last.arg))
              IN last.res = IF r.out = None THEN Err("FileNotFound") ELSE r.out[1]
        /\ last.op = "unpack" =>
              last.res = backend_unpack(FreshBackend, EmptyDest, fileContent).res
        /\ last.op = "unpack_entry" =>
              last.res = backend_unpack_entry(FreshBackend, last.arg, EmptyDest,
                                              fileContent).res

C20_Witness ==
    /\ Openable /\ arch[1].format = "TarGzip"
    /\ fileContent.items = <<ItemFile, ItemLink>>
    /\ last.op = "unpack_entry" /\ last.res.ok
    /\ archived[1].pos = 1

\* C21 as stated: between public calls, a backend in the cached slot is a
\* fresh pass over the file, nothing of it consumed.
C21_Original ==
    archived # None => archived[1].pos = 0

\* C21: between public calls, a backend in the cached slot is the one the
\* last successful archived() built for the Archive's format, in the state
\* the pass of that call left it: a tar reader stands where the pass stopped
\* (behind the last member after entries(), behind the match after
\* entry_by_name()), a zip backend has no position.
C21_SlotHoldsLastBackend ==
    archived # None =>
        /\ arch # None
        /\ archived[1].kind = (IF arch[1].format = "Zip" THEN "zip" ELSE "tar")
        /\ archived[1].kind = "zip" => archived[1].pos = 0
        /\ archived[1].kind = "tar" =>
              /\ archived[1].pos \in 0..Len(tar_stream(fileContent))
              /\ (last.op = "entries" /\ last.res.ok) =>
                     archived[1].pos = Len(tar_stream(fileContent))
              /\ (last.op = "entry_by_name" /\ last.res.ok) =>
                     archived[1].pos = last.res.val.index + 1

C21_Witness ==
    /\ archived # None /\ archived[1].kind = "tar" /\ archived[1].pos = 2
    /\ last.op = "entries" /\ last.res.ok /\ Len(last.res.val) = 2

\* The opened archive has no entry for e: no member of that path (tar), or
\* no member of that path at e's position (zip).
NotInArchive(e) ==
    IF arch[1].format = "Zip"
    THEN \/ e.index >= Len(fileContent.items)
         \/ ~path_eq(fileContent.items[e.index + 1].path, e.path)
    ELSE \A i \in DOMAIN fileContent.items : ~path_eq(fileContent.items[i].path, e.path)

AllReadable ==
    /\ fileContent.valid
    /\ \A i \in DOMAIN fileContent.items : fileContent.items[i].err = "none"

\* C22: unpack_entry with a file entry that the opened archive does not have
\* (every member of the archive being readable) returns Err(FileNotFound)
\* and leaves the files under dest as they were.
C22_ForeignEntry ==
    [][(/\ UnpackEntry
        /\ Openable /\ AllReadable
        /\ is_file(held[1]) /\ NotInArchive(held[1]))
       => /\ last'.res = Err("FileNotFound")
          /\ dest'.files = dest.files]_vars

\* C27: when the tar backend's unpack_entry returns Err(FileNotFound) for a
\* file entry, the parent directories of dest/entry.path exist afterwards
\* (they were created if missing, so dest has changed) and no file was
\* written.
C27_TarParentsCreated ==
    [][(/\ UnpackEntry
        /\ Openable /\ arch[1].format # "Zip"
        /\ is_file(held[1])
        /\ last'.res = Err("FileNotFound"))
       => /\ Prefixes(parent(held[1].path.comps)) \subseteq dest'.dirs
          /\ parent(held[1].path.comps) \notin dest.dirs => dest' # dest
          /\ dest'.files = dest.files]_vars

C27_Witness ==
    /\ last.op = "unpack_entry" /\ last.res = Err("FileNotFound")
    /\ Openable /\ arch[1].format = "TarGzip"
    /\ is_file(last.arg) /\ last.arg.path = P_file
    /\ fileContent.items = <<ItemLink>>
    /\ dest.dirs = {<<>>, <<"sample">>}
    /\ read_back(dest, P_file.comps) = NoData

\* C23: entries() returns Ok with the paths of all entries of one fresh
\* pass, in order, or the first error that pass yields; never Ok with a
\* part of the list.
C23_AllOrFirstError ==
    last.op = "entries" =>
        /\ ~Openable => ~last.res.ok
        /\ Openable =>
              LET pass == FreshPass(arch[1].format, fileContent)
                  bad == {i \in DOMAIN pass : ~pass[i].ok}
              IN IF bad = {}
                 THEN /\ Len(pass) = Len(fileContent.items)
                      /\ last.res = Ok([i \in DOMAIN pass |-> display(pass[i].val.path)])
                 ELSE last.res = pass[CHOOSE i \in bad : \A j \in bad : i <= j]

C23_Witness ==
    /\ last.op = "entries" /\ Openable
    /\ fileContent.items = <<ItemFile, ItemBadName>>
    /\ ~last.res.ok

\* C24: in the loop of download() with a callback, an interrupted read is
\* followed by the next turn with nothing written and the count unchanged;
\* any other read or write failure ends download() with Err(Io); every chunk
\* read is appended to the file as it is, 1 to 16384 bytes, and counted; and
\* on success the file is the chunks read, in order, making up the body.
C24_LoopChunks ==
    [][/\ (dl.pc = "loop" /\ dl'.intr > dl.intr) =>
              /\ dl'.pc = "loop"
              /\ dl'.fs = dl.fs /\ dl'.written = dl.written /\ dl'.src = dl.src
       /\ (dl.pc = "loop" /\ dl'.fault) =>
              /\ dl'.pc = "done" /\ dl'.res = Err("Io")
       /\ (dl.pc = "loop" /\ dl'.src > dl.src) =>
              LET old == dl.fs.files[as_path(dl.st[1])][1]
                  new == dl'.fs.files[as_path(dl.st[1])][1]
              IN /\ dl'.pc = "loop"
                 /\ Len(new) = Len(old) + 1 /\ SubSeq(new, 1, Len(old)) = old
                 /\ new[Len(new)][1] = dl.src
                 /\ new[Len(new)][2] \in 1..BufSize
                 /\ dl'.src = dl.src + new[Len(new)][2]
                 /\ dl'.written = dl.written + new[Len(new)][2]
       /\ (dl.pc = "loop" /\ dl'.pc = "done" /\ dl'.res.ok) =>
              /\ dl'.fs = dl.fs
              /\ HoldsBody(dl'.fs.files[dl'.res.val.path], dl'.response.body)
              /\ dl'.written = dl'.response.body]_vars

C24_Witness ==
    /\ dl.pc = "done" /\ dl.prog /\ dl.res.ok /\ dl.intr = 1
    /\ dl.fs.files[dl.res.val.path] = Some(<< <<0, BufSize>>, <<BufSize, 1>> >>)

\* The places where two consecutive invocations carry the same first argument.
Repeats(calls) == {k \in 1..(Len(calls) - 1) : calls[k][1] = calls[k + 1][1]}

\* C25: over the invocations of the callback in one download(), the second
\* argument is always the parsed content-length; the first starts at 0,
\* never decreases, is at each invocation the number of bytes written to the
\* file so far, and repeats only after an interrupted read.
C25_CallbackArguments ==
    [][/\ (dl.pc = "loop" /\ dl'.calls # dl.calls) =>
              /\ Len(dl'.calls) = Len(dl.calls) + 1
              /\ SubSeq(dl'.calls, 1, Len(dl.calls)) = dl.calls
              /\ dl'.calls[Len(dl'.calls)] =
                     <<BytesOf(dl.fs.files[as_path(dl.st[1])][1]),
                       content_length(dl.response).val>>
       /\ dl'.calls # <<>> => dl'.calls[1][1] = 0
       /\ \A k \in 1..(Len(dl'.calls) - 1) :
              /\ dl'.calls[k][1] <= dl'.calls[k + 1][1]
              /\ dl'.calls[k][2] = dl'.calls[k + 1][2]
       /\ Cardinality(Repeats(dl'.calls)) <= dl'.intr
       /\ dl'.pc = "done" => Cardinality(Repeats(dl'.calls)) = dl'.intr]_vars

C25_Witness ==
    /\ dl.pc = "done" /\ dl.prog /\ dl.res.ok
    /\ dl.calls = << <<0, 2>>, <<0, 2>>, <<1, 2>>, <<2, 2>> >>

\* This step is a call of the Archive that needs a pass.
PassCall == last'.op \in {"entries", "entry_by_name", "unpack_entry"}

\* C26: a call that needs a pass and fails in archived() (the file cannot be
\* opened, or no backend can be built on it) returns the error and leaves the
\* Archive's format, path and cached slot as they were; once the file can be
\* opened again, entries() succeeds.
C26_FailureLeavesArchive ==
    [][/\ (PassCall /\ ~Openable) =>
              /\ ~last'.res.ok
              /\ arch' = arch /\ archived' = archived
              /\ dest' = dest
       /\ (PassCall /\ Openable /\ AllReadable /\ last'.op = "entries") =>
              last'.res.ok]_vars

C26_Witness ==
    /\ last.op = "entries" /\ last.res = Err("Io")
    /\ ~fileExists
    /\ archived # None /\ archived[1].kind = "tar" /\ archived[1].pos = 1

\* C28: when download() fails because the GET fails, or, with a callback,
\* because content-length is absent or does not parse, it returns
\* Err(InvalidRequest) with no storage made: no temporary directory, no
\* destination directory, no file, and the callback never invoked.
C28_FailsBeforeStorage ==
    [][(/\ dl.pc = "building" /\ dl'.pc = "done"
        /\ \/ dl.response.status # "200"
           \/ dl.prog /\ ~content_length(dl.response).ok)
       => /\ dl'.res = Err("InvalidRequest")
          /\ ~dl'.materialized
          /\ dl'.fs = dl.fs
          /\ dl'.calls = <<>>]_vars

C28_Witness ==
    /\ dl.pc = "done" /\ dl.prog /\ dl.response.status = "200"
    /\ dl.response.header = None
    /\ dl.dst[1].kind = "Dir" /\ dl.dst[1].dir \notin dl.fs.dirs
    /\ dl.res = Err("InvalidRequest") /\ ~dl.materialized /\ dl.calls = <<>>

====
